---- MODULE Spec2Model ----
(***************************************************************************)
(* TalkToCode backend (src/main.py): the bounded recursive walk of a       *)
(* repository tree (fetch_repo_data / traverse_directory), the two         *)
(* handlers that call it (/ingest, /get_repo_data), and the pure text      *)
(* functions applied to client-supplied RepoData (format_for_gemini,       *)
(* search_code, the join of /analyze_structure).                           *)
(*                                                                         *)
(* Strings are sequences of one-character strings.  File contents met      *)
(* during the walk are kept by their measures only (characters, bytes per  *)
(* character), so that the limits 500 and 50 * 1024 keep their values.     *)
(***************************************************************************)
EXTENDS Integers, Sequences, FiniteSets, TLC

VARIABLES
    repo,              \* the remote repository: its tree and what each entry answers
    pc,                \* position of the request being served
    caller,            \* who called fetch_repo_data: "ingest", "get_repo_data", "direct"
    max_files,         \* parameter of fetch_repo_data
    exclude_patterns,  \* parameter of fetch_repo_data (a list of strings)
    stack,             \* activations of traverse_directory, innermost last
    repo_data,         \* {"structure": [...], "files": {...}}, files in insertion order
    file_count,        \* nonlocal counter of traverse_directory
    total_size,        \* nonlocal counter of traverse_directory
    out,               \* what traverse_directory has printed
    geminiCalls,       \* requests sent to the generation service
    body,              \* JSON body of the request to a text handler
    sent,              \* last formatted_data handed to the generation service
    response           \* what the request ended with

vars == <<repo, pc, caller, max_files, exclude_patterns, stack, repo_data,
          file_count, total_size, out, geminiCalls, body, sent, response>>

----------------------------------------------------------------------------
(* Bounds of the model *)

MaxNodes == 3

MaxLines == 2

MaxPaths == 3

----------------------------------------------------------------------------
(* Strings *)

UpperLetters ==
    <<"A","B","C","D","E","F","G","H","I","J","K","L","M",
      "N","O","P","Q","R","S","T","U","V","W","X","Y","Z">>

LowerLetters ==
    <<"a","b","c","d","e","f","g","h","i","j","k","l","m",
      "n","o","p","q","r","s","t","u","v","w","x","y","z">>

\* str.lower() on one character
lowerChar(c) ==
    IF \E k \in 1..26 : UpperLetters[k] = c
    THEN LowerLetters[CHOOSE k \in 1..26 : UpperLetters[k] = c]
    ELSE c

\* str.lower()
lower(s) == [i \in 1..Len(s) |-> lowerChar(s[i])]

\* the Python test  sub in s
contains(sub, s) ==
    \E i \in 0..(Len(s) - Len(sub)) : SubSeq(s, i + 1, i + Len(sub)) = sub

Min(a, b) == IF a <= b THEN a ELSE b

----------------------------------------------------------------------------
(* The remote repository *)

Nodes == 1..MaxNodes

\* names of the entries, one per node, so that sibling names differ
EntryNames == <<"a", "B", "c", "D", "e", "F", "g", "H">>

name(n) == <<EntryNames[n]>>

\* what an entry is and what the hosting service answers for it (entries
\* that are neither "file" nor "dir" are only listed, as a file that does not
\* fit is, and are left out):
\* a directory whose listing can be fetched or not, a file whose content
\* decodes (chars characters of width bytes each) or raises (message of
\* errlen characters)
DirOk      == [type |-> "dir",  fails |-> FALSE, chars |-> 0,     width |-> 1, errlen |-> 0]
DirError   == [type |-> "dir",  fails |-> TRUE,  chars |-> 0,     width |-> 1, errlen |-> 0]
FileSmall  == [type |-> "file", fails |-> FALSE, chars |-> 300,   width |-> 1, errlen |-> 0]
FileLong   == [type |-> "file", fails |-> FALSE, chars |-> 600,   width |-> 2, errlen |-> 0]
FileHuge   == [type |-> "file", fails |-> FALSE, chars |-> 51200, width |-> 1, errlen |-> 0]
FileErrorShort == [type |-> "file", fails |-> TRUE, chars |-> 0, width |-> 1, errlen |-> 26]
FileErrorLong  == [type |-> "file", fails |-> TRUE, chars |-> 0, width |-> 1, errlen |-> 60000]

Entries == {DirOk, DirError, FileSmall, FileLong, FileHuge, FileErrorShort, FileErrorLong}

\* a tree: node n lies in directory parent[n] (0 is the root), a directory
\* lists its entries in increasing node order
Trees ==
    { t \in [parent : [Nodes -> 0..MaxNodes], entry : [Nodes -> Entries]] :
        \A n \in Nodes :
            /\ t.parent[n] < n
            /\ t.parent[n] # 0 => t.entry[t.parent[n]].type = "dir" }

RECURSIVE listingFrom(_, _, _)
listingFrom(t, d, n) ==
    IF n > MaxNodes THEN <<>>
    ELSE IF t.parent[n] = d THEN <<n>> \o listingFrom(t, d, n + 1)
    ELSE listingFrom(t, d, n + 1)

\* repo.get_contents(path of d): the entries of directory d, in order
get_contents(d) == listingFrom(repo, d, 1)

----------------------------------------------------------------------------
(* fetch_repo_data *)

SizeLimit == 50 * 1024

ContentChars == 500

DefaultMaxFiles == 50

\* the lists a client sends as "exclude"
ExcludeChoices == { <<>>, << <<"b">> >>, << <<"C">> >> }

\* max_files of a direct call of fetch_repo_data
MaxFilesChoices == {1, 2}

\* f"{path}/{content.name}" if path else content.name
joinPath(path, n) == IF path # <<>> THEN path \o <<"/">> \o name(n) ELSE name(n)

\* any(pattern in current_path.lower() for pattern in exclude_patterns)
excluded(current_path, patterns) ==
    \E k \in 1..Len(patterns) : contains(patterns[k], lower(current_path))

\* file_content[:500], of a content kept by its measures
truncated(e) ==
    [kind |-> "text", chars |-> Min(e.chars, ContentChars), width |-> e.width]

\* f"Error: {str(e)}"
errorString(e) == [kind |-> "error", chars |-> 7 + e.errlen, width |-> 1]

\* len(file_content.encode("utf-8"))
encodedSize(e) == e.chars * e.width

\* repo_data["files"][key] = value, on a dict kept in insertion order
dictSet(files, key, value) ==
    IF \E k \in 1..Len(files) : files[k].path = key
    THEN [k \in 1..Len(files) |->
            IF files[k].path = key THEN [path |-> key, content |-> value] ELSE files[k]]
    ELSE Append(files, [path |-> key, content |-> value])

\* the mutation of recorded that leaves the path out of the listing
recordedNowhere(rd, path) == rd

\* line 122: repo_data["structure"].append(current_path)
recorded(rd, path) == [rd EXCEPT !.structure = Append(@, path)]

\* lines 128 and 135: repo_data["files"][current_path] = value
stored(rd, path, value) == [rd EXCEPT !.files = dictSet(@, path, value)]

top == stack[Len(stack)]

current == top.directory[top.i]

current_path == joinPath(top.path, current)

\* the loop of the innermost activation moves to its next entry
advance == [stack EXCEPT ![Len(stack)].i = @ + 1]

inLoop == pc = "traverse" /\ stack # <<>> /\ top.i >= 1 /\ top.i <= Len(top.directory)

EmptyRepoData == [structure |-> <<>>, files |-> <<>>]

\* a request that has not been answered, and the answers of the handlers:
\* jsonify({"error": text}) with a status, jsonify of a payload, and an
\* exception that leaves the handler uncaught
NoResponse == [status |-> 0, kind |-> "none", error |-> "", payload |-> <<>>]

jsonError(status, text) ==
    [status |-> status, kind |-> "json", error |-> text, payload |-> <<>>]

jsonOk(payload) == [status |-> 200, kind |-> "json", error |-> "", payload |-> payload]

uncaught(where) == [status |-> 0, kind |-> "exception", error |-> where, payload |-> <<>>]

Init ==
    /\ repo \in Trees
    /\ pc = "idle"
    /\ caller = "none"
    /\ max_files = DefaultMaxFiles
    /\ exclude_patterns = <<>>
    /\ stack = <<>>
    /\ repo_data = EmptyRepoData
    /\ file_count = 0
    /\ total_size = 0
    /\ out = <<>>
    /\ geminiCalls = 0
    /\ body = [endpoint |-> "none"]
    /\ sent = <<>>
    /\ response = NoResponse

\* fetch_repo_data is entered: by /ingest or /get_repo_data with
\* max_files=50, or called with a max_files of its own
CallFetch(who, mf, excl) ==
    /\ pc = "idle"
    /\ pc' = "get_repo"
    /\ caller' = who
    /\ max_files' = mf
    /\ exclude_patterns' = excl
    /\ UNCHANGED <<repo, stack, repo_data, file_count, total_size, out,
                   geminiCalls, body, sent, response>>

IngestRepo == \E excl \in ExcludeChoices : CallFetch("ingest", DefaultMaxFiles, excl)

GetRepoData == \E excl \in ExcludeChoices : CallFetch("get_repo_data", DefaultMaxFiles, excl)

\* lines 98-101: a call that gives max_files and leaves exclude_patterns to
\* its default, None, which becomes []
DirectFetch == \E mf \in MaxFilesChoices : CallFetch("direct", mf, <<>>)

\* lines 103-105: g.get_repo(repo_path) answers or raises; nothing in
\* fetch_repo_data or in the handlers catches what it raises
GetRepoOk ==
    /\ pc = "get_repo"
    /\ pc' = "root_listing"
    /\ UNCHANGED <<repo, caller, max_files, exclude_patterns, stack, repo_data,
                   file_count, total_size, out, geminiCalls, body, sent, response>>

GetRepoRaises ==
    /\ pc = "get_repo"
    /\ pc' = "raised"
    /\ response' = uncaught("get_repo")
    /\ UNCHANGED <<repo, caller, max_files, exclude_patterns, stack, repo_data,
                   file_count, total_size, out, geminiCalls, body, sent>>

\* lines 107-110 and 142: the root listing is fetched and traverse_directory
\* is called on it with path ""
RootListingOk ==
    /\ pc = "root_listing"
    /\ pc' = "traverse"
    /\ repo_data' = EmptyRepoData
    /\ file_count' = 0
    /\ total_size' = 0
    /\ stack' = << [directory |-> get_contents(0), path |-> <<>>, i |-> 0] >>
    /\ UNCHANGED <<repo, caller, max_files, exclude_patterns, out,
                   geminiCalls, body, sent, response>>

RootListingRaises ==
    /\ pc = "root_listing"
    /\ pc' = "raised"
    /\ response' = uncaught("get_contents")
    /\ UNCHANGED <<repo, caller, max_files, exclude_patterns, stack, repo_data,
                   file_count, total_size, out, geminiCalls, body, sent>>

\* line 114: the test made on entering traverse_directory
stopCondition == file_count >= max_files \/ total_size > SizeLimit

\* lines 114-116: the activation returns at once
EnterDirectoryStop ==
    /\ pc = "traverse" /\ stack # <<>> /\ top.i = 0
    /\ stopCondition
    /\ out' = Append(out, [msg |-> "hit_limit", path |-> top.path])
    /\ stack' = SubSeq(stack, 1, Len(stack) - 1)
    /\ UNCHANGED <<repo, pc, caller, max_files, exclude_patterns, repo_data,
                   file_count, total_size, geminiCalls, body, sent, response>>

\* lines 114, 117: the loop over the listing starts
EnterDirectory ==
    /\ pc = "traverse" /\ stack # <<>> /\ top.i = 0
    /\ ~stopCondition
    /\ stack' = [stack EXCEPT ![Len(stack)].i = 1]
    /\ UNCHANGED <<repo, pc, caller, max_files, exclude_patterns, repo_data,
                   file_count, total_size, out, geminiCalls, body, sent, response>>

\* lines 119-121
SkipExcluded ==
    /\ inLoop
    /\ excluded(current_path, exclude_patterns)
    /\ out' = Append(out, [msg |-> "excluded", path |-> current_path])
    /\ stack' = advance
    /\ UNCHANGED <<repo, pc, caller, max_files, exclude_patterns, repo_data,
                   file_count, total_size, geminiCalls, body, sent, response>>

\* lines 122-131: a file whose content decodes and fits the budget
StoreFile ==
    /\ inLoop
    /\ ~excluded(current_path, exclude_patterns)
    /\ LET e == repo.entry[current] IN
        /\ e.type = "file" /\ ~e.fails
        /\ file_count < max_files /\ total_size + encodedSize(e) <= SizeLimit
        /\ repo_data' = stored(recorded(repo_data, current_path), current_path, truncated(e))
        /\ file_count' = file_count + 1
        /\ total_size' = total_size + encodedSize(e)
    /\ out' = Append(out, [msg |-> "added", path |-> current_path])
    /\ stack' = advance
    /\ UNCHANGED <<repo, pc, caller, max_files, exclude_patterns,
                   geminiCalls, body, sent, response>>

\* lines 122-127, 132-133: a file whose content decodes and does not fit
SkipFile ==
    /\ inLoop
    /\ ~excluded(current_path, exclude_patterns)
    /\ LET e == repo.entry[current] IN
        /\ e.type = "file" /\ ~e.fails
        /\ ~(file_count < max_files /\ total_size + encodedSize(e) <= SizeLimit)
    /\ repo_data' = recorded(repo_data, current_path)
    /\ out' = Append(out, [msg |-> "skipped", path |-> current_path])
    /\ stack' = advance
    /\ UNCHANGED <<repo, pc, caller, max_files, exclude_patterns, file_count,
                   total_size, geminiCalls, body, sent, response>>

\* lines 122-125, 134-135: reading or decoding the content raises
StoreFileError ==
    /\ inLoop
    /\ ~excluded(current_path, exclude_patterns)
    /\ LET e == repo.entry[current] IN
        /\ e.type = "file" /\ e.fails
        /\ repo_data' = stored(recorded(repo_data, current_path), current_path, errorString(e))
    /\ stack' = advance
    /\ UNCHANGED <<repo, pc, caller, max_files, exclude_patterns, file_count,
                   total_size, out, geminiCalls, body, sent, response>>

\* lines 122, 136-138: the listing of a sub-directory is fetched and
\* traverse_directory is called on it; the loop resumes after the call
DescendDirectory ==
    /\ inLoop
    /\ ~excluded(current_path, exclude_patterns)
    /\ LET e == repo.entry[current] IN
        /\ e.type = "dir" /\ ~e.fails
    /\ repo_data' = recorded(repo_data, current_path)
    /\ stack' = Append(advance,
                       [directory |-> get_contents(current), path |-> current_path, i |-> 0])
    /\ UNCHANGED <<repo, pc, caller, max_files, exclude_patterns, file_count,
                   total_size, out, geminiCalls, body, sent, response>>

\* the mutation of afterListingError in which the handler returns from
\* the activation instead of going on with its loop
afterListingErrorReturn == SubSeq(stack, 1, Len(stack) - 1)

\* what the handler at lines 139-140 does to the activations when
\* repo.get_contents raises: the loop of the same activation goes on
afterListingError == advance

\* lines 122, 136-140: fetching the listing raises, the error is printed
DescendDirectoryError ==
    /\ inLoop
    /\ ~excluded(current_path, exclude_patterns)
    /\ LET e == repo.entry[current] IN
        /\ e.type = "dir" /\ e.fails
    /\ repo_data' = recorded(repo_data, current_path)
    /\ out' = Append(out, [msg |-> "error_in", path |-> current_path])
    /\ stack' = afterListingError
    /\ UNCHANGED <<repo, pc, caller, max_files, exclude_patterns, file_count,
                   total_size, geminiCalls, body, sent, response>>

\* line 117: the listing is exhausted, the activation returns
ReturnFromDirectory ==
    /\ pc = "traverse" /\ stack # <<>> /\ top.i > Len(top.directory)
    /\ stack' = SubSeq(stack, 1, Len(stack) - 1)
    /\ UNCHANGED <<repo, pc, caller, max_files, exclude_patterns, repo_data,
                   file_count, total_size, out, geminiCalls, body, sent, response>>

\* lines 143-144: fetch_repo_data returns repo_data
FetchReturn ==
    /\ pc = "traverse" /\ stack = <<>>
    /\ pc' = "fetched"
    /\ UNCHANGED <<repo, caller, max_files, exclude_patterns, stack, repo_data,
                   file_count, total_size, out, geminiCalls, body, sent, response>>

Traverse ==
    \/ EnterDirectoryStop \/ EnterDirectory \/ SkipExcluded \/ StoreFile
    \/ SkipFile \/ StoreFileError \/ DescendDirectory \/ DescendDirectoryError
    \/ ReturnFromDirectory

\* lines 26-27 and 85-86: the body has no repo_url
MissingRepoUrl ==
    /\ pc = "idle"
    /\ \E who \in {"ingest", "get_repo_data"} : caller' = who
    /\ pc' = "responded"
    /\ response' = jsonError(400, "Missing repo_url")
    /\ UNCHANGED <<repo, max_files, exclude_patterns, stack, repo_data,
                   file_count, total_size, out, geminiCalls, body, sent>>

\* line 144: what fetch_repo_data hands back when it returns
returned == [isNone |-> FALSE, data |-> repo_data]

\* what send_to_gemini returns: the generated text, or, lines 171-172, an
\* error string standing for a result
GeminiOutcomes == {"text", "error_string"}

\* lines 30-44: the rest of ingest_repo; the document handed to the
\* generation service is kept by the RepoData it is formatted from
IngestRespond ==
    /\ pc = "fetched" /\ caller = "ingest"
    /\ pc' = "responded"
    /\ IF returned.isNone
       THEN /\ response' = jsonError(500, "Failed to fetch repo data")
            /\ UNCHANGED <<geminiCalls, sent>>
       ELSE \E summary \in GeminiOutcomes, suggestions \in GeminiOutcomes :
            /\ sent' = returned.data
            /\ geminiCalls' = geminiCalls + 2
            /\ response' = jsonOk([status |-> "success",
                                   files_analyzed |-> Len(returned.data.files),
                                   summary |-> summary,
                                   suggestions |-> suggestions,
                                   repo_data |-> returned.data])
    /\ UNCHANGED <<repo, caller, max_files, exclude_patterns, stack, repo_data,
                   file_count, total_size, out, body>>

\* lines 89-96: the rest of get_repo_data
GetRepoDataRespond ==
    /\ pc = "fetched" /\ caller = "get_repo_data"
    /\ pc' = "responded"
    /\ IF returned.isNone
       THEN response' = jsonError(500, "Failed to fetch repo data")
       ELSE response' = jsonOk([status |-> "success",
                                repo_data |-> returned.data,
                                files_analyzed |-> Len(returned.data.files)])
    /\ UNCHANGED <<repo, caller, max_files, exclude_patterns, stack, repo_data,
                   file_count, total_size, out, geminiCalls, body, sent>>

Next ==
    \/ IngestRepo \/ GetRepoData \/ DirectFetch \/ MissingRepoUrl
    \/ GetRepoOk \/ GetRepoRaises \/ RootListingOk \/ RootListingRaises
    \/ Traverse \/ FetchReturn
    \/ IngestRespond \/ GetRepoDataRespond

Spec == Init /\ [][Next]_vars

----------------------------------------------------------------------------
(* The text functions: "\n".join, str.split, str.strip, str(int),        *)
(* format_for_gemini, search_code.  A character outside ASCII is written   *)
(* by its name: "eszett" is the letter whose str.lower() is itself and     *)
(* whose str.upper() is "SS".                                              *)

\* the mutation of joinLines that ends every path with the separator
RECURSIVE joinLinesTerminated(_)
joinLinesTerminated(list) ==
    IF list = <<>> THEN <<>>
    ELSE Head(list) \o <<"\n">> \o joinLinesTerminated(Tail(list))

\* "\n".join(list)
RECURSIVE joinLines(_)
joinLines(list) ==
    IF list = <<>> THEN <<>>
    ELSE IF Len(list) = 1 THEN list[1]
    ELSE list[1] \o <<"\n">> \o joinLines(Tail(list))

\* s.split("\n"): a list of one element at least
RECURSIVE splitLines(_)
splitLines(s) ==
    IF \E k \in DOMAIN s : s[k] = "\n"
    THEN LET k == CHOOSE j \in DOMAIN s : s[j] = "\n" /\ \A h \in 1..(j - 1) : s[h] # "\n"
         IN  <<SubSeq(s, 1, k - 1)>> \o splitLines(SubSeq(s, k + 1, Len(s)))
    ELSE <<s>>

Whitespace == {" ", "\n", "\t", "\r"}

\* s.strip()
RECURSIVE strip(_)
strip(s) ==
    IF s = <<>> THEN s
    ELSE IF s[1] \in Whitespace THEN strip(Tail(s))
    ELSE IF s[Len(s)] \in Whitespace THEN strip(SubSeq(s, 1, Len(s) - 1))
    ELSE s

Digits == <<"0","1","2","3","4","5","6","7","8","9">>

\* str(n) of a natural number
RECURSIVE str(_)
str(n) == IF n < 10 THEN <<Digits[n + 1]>> ELSE str(n \div 10) \o <<Digits[(n % 10) + 1]>>

StructureHeader == <<"D","i","r","e","c","t","o","r","y"," ","S","t","r","u","c","t","u","r","e",":","\n">>

FilesHeader == <<"F","i","l","e"," ","C","o","n","t","e","n","t","s",":","\n">>

\* lines 149-150: the blocks f"--- {file_path} ---\n{content}\n"
RECURSIVE fileBlocks(_)
fileBlocks(files) ==
    IF files = <<>> THEN <<>>
    ELSE <<"-","-","-"," ">> \o files[1].path \o <<" ","-","-","-","\n">> \o files[1].content \o <<"\n">>
            \o fileBlocks(Tail(files))

\* lines 146-151
format_for_gemini(rd) ==
    StructureHeader \o joinLines(rd.structure) \o <<"\n", "\n">> \o FilesHeader
        \o fileBlocks(rd.files)

\* lines 158-160: the lines of one file from line i on
RECURSIVE searchLines(_, _, _, _)
searchLines(file_path, lines, i, keyword) ==
    IF i > Len(lines) THEN <<>>
    ELSE (IF contains(lower(keyword), lower(lines[i]))
          THEN << file_path \o <<":"," ","L","i","n","e"," ">> \o str(i) \o <<":", " ">> \o strip(lines[i]) >>
          ELSE <<>>)
         \o searchLines(file_path, lines, i + 1, keyword)

\* lines 155-160: the files from position k on, in insertion order
RECURSIVE searchFiles(_, _, _)
searchFiles(files, k, keyword) ==
    IF k > Len(files) THEN <<>>
    ELSE (IF contains(lower(keyword), lower(files[k].content))
          THEN searchLines(files[k].path, splitLines(files[k].content), 1, keyword)
          ELSE <<>>)
         \o searchFiles(files, k + 1, keyword)

\* lines 153-161
search_code(rd, keyword) == searchFiles(rd.files, 1, keyword)

----------------------------------------------------------------------------
(* The handlers of client-supplied RepoData *)

\* the paths a client may put in structure
StructurePaths ==
    { <<>>, <<"a">>, <<"d", "/", "b">>, <<"a", "\n", "b">>, <<"F","i","l","e"," ","C","o","n","t","e","n","t","s",":">> }

\* the lines of the contents a client may send
LineChoices == { <<>>, <<"o", "s">>, <<" ", "O", "s", " ">>, <<"x", "eszett">> }

\* the keywords a client may send
KeywordChoices == { <<>>, <<"o">>, <<"O", "S">>, <<"x">>, <<"eszett">>, <<"\n">> }

\* the keys of files a client may send
FilePaths == { <<"a">>, <<"d", "/", "b">> }

SeqsUpTo(S, n) == UNION { [1..m -> S] : m \in 0..n }

\* contents of one line at least and MaxLines at most
ContentChoices == { joinLines(ls) : ls \in SeqsUpTo(LineChoices, MaxLines) \ {<<>>} }

\* dicts of files in insertion order: distinct keys
FilesChoices ==
    { fs \in SeqsUpTo([path : FilePaths, content : ContentChoices], Cardinality(FilePaths)) :
        \A i, j \in DOMAIN fs : i # j => fs[i].path # fs[j].path }

NoRepo == [parent |-> <<>>, entry |-> <<>>]

\* a body without repo_data (or with an empty one), and the bodies of the
\* three handlers
Bodies ==
    [endpoint : {"analyze_structure", "analyze_codebase", "search"},
     has_repo_data : {FALSE}, repo_data : {EmptyRepoData}, keyword : {<<>>, <<"o">>}]
    \cup
    [endpoint : {"analyze_structure"}, has_repo_data : {TRUE},
     repo_data : [structure : SeqsUpTo(StructurePaths, MaxPaths), files : {<<>>}],
     keyword : {<<>>}]
    \cup
    [endpoint : {"analyze_codebase"}, has_repo_data : {TRUE},
     repo_data : [structure : SeqsUpTo(StructurePaths, MaxPaths),
                  files : { fs \in FilesChoices : Len(fs) <= 1 /\ \A k \in DOMAIN fs :
                              fs[k].content \in LineChoices }],
     keyword : {<<>>}]
    \cup
    [endpoint : {"search"}, has_repo_data : {TRUE},
     repo_data : { [structure |-> [k \in DOMAIN fs |-> fs[k].path], files |-> fs] :
                    fs \in FilesChoices },
     keyword : KeywordChoices]

InitText ==
    /\ body \in Bodies
    /\ repo = NoRepo
    /\ pc = "idle"
    /\ caller = "none"
    /\ max_files = DefaultMaxFiles
    /\ exclude_patterns = <<>>
    /\ stack = <<>>
    /\ repo_data = EmptyRepoData
    /\ file_count = 0
    /\ total_size = 0
    /\ out = <<>>
    /\ geminiCalls = 0
    /\ sent = <<>>
    /\ response = NoResponse

textUnchanged ==
    UNCHANGED <<repo, caller, max_files, exclude_patterns, stack, repo_data,
                file_count, total_size, out, body>>

\* lines 46-55
AnalyzeCodebase ==
    /\ pc = "idle" /\ body.endpoint = "analyze_codebase"
    /\ pc' = "responded"
    /\ IF ~body.has_repo_data
       THEN /\ response' = jsonError(400, "Missing repo_data")
            /\ UNCHANGED <<sent, geminiCalls>>
       ELSE \E summary \in GeminiOutcomes :
            /\ sent' = format_for_gemini(body.repo_data)
            /\ geminiCalls' = geminiCalls + 1
            /\ response' = jsonOk([analysis |-> summary])
    /\ textUnchanged

\* lines 57-65
AnalyzeStructure ==
    /\ pc = "idle" /\ body.endpoint = "analyze_structure"
    /\ pc' = "responded"
    /\ IF ~body.has_repo_data
       THEN response' = jsonError(400, "Missing repo_data")
       ELSE response' = jsonOk([structure |-> joinLines(body.repo_data.structure)])
    /\ UNCHANGED <<sent, geminiCalls>>
    /\ textUnchanged

\* lines 67-77
SearchRepo ==
    /\ pc = "idle" /\ body.endpoint = "search"
    /\ pc' = "responded"
    /\ IF ~body.has_repo_data \/ body.keyword = <<>>
       THEN response' = jsonError(400, "Missing repo_data or keyword")
       ELSE response' = jsonOk([results |-> search_code(body.repo_data, body.keyword)])
    /\ UNCHANGED <<sent, geminiCalls>>
    /\ textUnchanged

NextText == AnalyzeCodebase \/ AnalyzeStructure \/ SearchRepo

SpecText == InitText /\ [][NextText]_vars

----------------------------------------------------------------------------
(* Properties of fetch_repo_data *)

Range(s) == { s[k] : k \in DOMAIN s }

keys(files) == { files[k].path : k \in DOMAIN files }

isPrefix(p, q) == Len(p) <= Len(q) /\ SubSeq(q, 1, Len(p)) = p

\* first position of x in seq
position(seq, x) == CHOOSE k \in DOMAIN seq : seq[k] = x /\ \A j \in 1..(k - 1) : seq[j] # x

fetchReturned == pc \in {"fetched", "responded"} /\ response.status # 400

RECURSIVE nodePath(_)
nodePath(n) ==
    IF repo.parent[n] = 0 THEN name(n)
    ELSE nodePath(repo.parent[n]) \o <<"/">> \o name(n)

\* C1: in every state of the walk and in the RepoData returned, every key
\* of repo_data.files is an element of repo_data.structure.
C1_Containment == keys(repo_data.files) \subseteq Range(repo_data.structure)

\* the walk has ended with a file stored as decoded text, a file stored as
\* an error string and a sub-directory whose listing could not be fetched
C1_Witness ==
    /\ pc = "fetched"
    /\ \E f \in Range(repo_data.files) : f.content.kind = "text"
    /\ \E f \in Range(repo_data.files) : f.content.kind = "error"
    /\ \E m \in Range(out) : m.msg = "error_in"

\* the paths fetch_repo_data has listed, stored or descended into
touchedPaths ==
    Range(repo_data.structure) \cup keys(repo_data.files)
        \cup { stack[k].path : k \in DOMAIN stack }

\* the path contains the pattern when both are compared without case
matchesIgnoringCase(pattern, path) == contains(lower(pattern), lower(path))

\* C2: no path that contains an exclusion substring, compared
\* case-insensitively, is ever in structure or a key of files, and the
\* listing of such a directory is never fetched.
C2_ExclusionIgnoresCase ==
    \A path \in touchedPaths \ {<<>>} :
        \A k \in DOMAIN exclude_patterns :
            ~matchesIgnoringCase(exclude_patterns[k], path)

\* C3: every value stored in repo_data.files, decoded content or error
\* string, has at most 500 characters.
C3_StoredAtMost500 ==
    \A f \in Range(repo_data.files) : f.content.chars <= ContentChars

storedBytes(f) == f.content.chars * f.content.width

RECURSIVE sumBytes(_)
sumBytes(files) ==
    IF files = <<>> THEN 0 ELSE storedBytes(Head(files)) + sumBytes(Tail(files))

\* the directory of a path: what precedes its last "/"
dirOfPath(path) ==
    IF \E k \in DOMAIN path : path[k] = "/"
    THEN SubSeq(path, 1,
                (CHOOSE k \in DOMAIN path :
                    path[k] = "/" /\ \A j \in (k + 1)..Len(path) : path[j] # "/") - 1)
    ELSE <<>>

\* bytes stored for the files that lie directly in directory dir
bytesOfDirectory(dir) ==
    sumBytes(SelectSeq(repo_data.files, LAMBDA f : dirOfPath(f.path) = dir))

\* the largest amount stored for the files of one directory
largestDirectory ==
    LET dirs == { dirOfPath(f.path) : f \in Range(repo_data.files) } IN
    IF dirs = {} THEN 0
    ELSE CHOOSE b \in { bytesOfDirectory(d) : d \in dirs } :
            \A d \in dirs : bytesOfDirectory(d) <= b

budgetChecked == pc = "traverse" /\ stack # <<>> /\ top.i = 0

\* C4: whenever the budget test is evaluated on entering a directory, and
\* in the RepoData returned, the bytes of all values stored in files do
\* not exceed 50 KiB by more than what the files of one directory hold.
C4_SizeBudget ==
    (budgetChecked \/ fetchReturned) =>
        sumBytes(repo_data.files) <= SizeLimit + largestDirectory

\* C5: the RepoData returned has at most max_files entries in files, and
\* so has the files_analyzed that the handlers report.
C5_FileCountCap ==
    /\ fetchReturned => Len(repo_data.files) <= max_files
    /\ (pc = "responded" /\ response.status = 200) =>
            response.payload.files_analyzed <= max_files

\* C6: when the repository cannot be resolved or the root listing fails
\* under /ingest or /get_repo_data, the handler answers 500 with
\* {error: "Failed to fetch repo data"}, hands out no RepoData and calls
\* the generation service not at all; no exception leaves the handler.
C6_FetchFailureIsJsonError ==
    (caller \in {"ingest", "get_repo_data"} /\ pc = "raised") =>
        /\ response = jsonError(500, "Failed to fetch repo data")
        /\ geminiCalls = 0

hitLimit == \E m \in Range(out) : m.msg = "hit_limit"

\* C9: once the stop condition has held on entering a directory, neither
\* structure nor files changes until fetch_repo_data returns.
C9_GlobalHalt == [][hitLimit => repo_data' = repo_data]_vars

\* directories whose listing was asked for and could not be fetched
failedDirs ==
    { d \in Nodes : [msg |-> "error_in", path |-> nodePath(d)] \in Range(out) }

RECURSIVE ancestorsOrSelf(_)
ancestorsOrSelf(n) == IF n = 0 THEN {} ELSE {n} \cup ancestorsOrSelf(repo.parent[n])

\* the siblings listed after node a in its directory
laterSiblings(a) == { s \in Nodes : repo.parent[s] = repo.parent[a] /\ s > a }

\* C10: a sub-directory listing that fails at any depth does not end the
\* walk: fetch_repo_data does not raise, the failed directory is in
\* structure without any descendant, and when the walk has returned every
\* non-excluded later sibling of the directory and of each of its ancestors
\* is in structure, in listing order.
C10_ListingErrorIsolated ==
    \A d \in failedDirs :
        /\ pc # "raised"
        /\ nodePath(d) \in Range(repo_data.structure)
        /\ \A q \in Range(repo_data.structure) : ~isPrefix(nodePath(d) \o <<"/">>, q)
        /\ fetchReturned =>
            \A a \in ancestorsOrSelf(d) : \A s \in laterSiblings(a) :
                ~excluded(nodePath(s), exclude_patterns) =>
                    /\ nodePath(s) \in Range(repo_data.structure)
                    /\ position(repo_data.structure, nodePath(a))
                         < position(repo_data.structure, nodePath(s))
                    /\ \A r \in laterSiblings(a) :
                         (r < s /\ nodePath(r) \in Range(repo_data.structure)) =>
                            position(repo_data.structure, nodePath(r))
                              < position(repo_data.structure, nodePath(s))

\* the walk has returned after a listing failed below the root, and a later
\* sibling of the parent of the failed directory is listed
C10_Witness ==
    /\ pc = "fetched"
    /\ \E d \in failedDirs :
        /\ repo.parent[d] # 0
        /\ \E s \in laterSiblings(repo.parent[d]) : nodePath(s) \in Range(repo_data.structure)

----------------------------------------------------------------------------
(* Properties of the text functions *)

answered(endpoint) ==
    pc = "responded" /\ body.endpoint = endpoint /\ response.status = 200

\* str.upper(): "eszett" becomes "SS"
RECURSIVE upper(_)
upper(s) ==
    IF s = <<>> THEN <<>>
    ELSE (IF s[1] = "eszett" THEN <<"S", "S">>
          ELSE IF \E k \in 1..26 : LowerLetters[k] = s[1]
          THEN <<UpperLetters[CHOOSE k \in 1..26 : LowerLetters[k] = s[1]]>>
          ELSE <<s[1]>>)
         \o upper(Tail(s))

\* the caseless form of a string (str.casefold()): "eszett" becomes "ss"
RECURSIVE caseless(_)
caseless(s) ==
    IF s = <<>> THEN <<>>
    ELSE (IF s[1] = "eszett" THEN <<"s", "s">> ELSE <<lowerChar(s[1])>>) \o caseless(Tail(s))

\* every line of every file, files in insertion order, lines in order
RECURSIVE allLines(_)
allLines(files) ==
    IF files = <<>> THEN <<>>
    ELSE LET ls == splitLines(files[1].content) IN
         [n \in 1..Len(ls) |-> [path |-> files[1].path, n |-> n, line |-> ls[n]]]
            \o allLines(Tail(files))

emitted(r) == r.path \o <<":"," ","L","i","n","e"," ">> \o str(r.n) \o <<":", " ">> \o strip(r.line)

\* the matches of the lines that contain the keyword without regard to case
caselessMatches(rd, keyword) ==
    LET sel == SelectSeq(allLines(rd.files),
                         LAMBDA r : contains(caseless(keyword), caseless(r.line)))
    IN  [j \in DOMAIN sel |-> emitted(sel[j])]

\* the matches of the lines whose str.lower() contains that of the keyword
lowercaseMatches(rd, keyword) ==
    LET sel == SelectSeq(allLines(rd.files),
                         LAMBDA r : contains(lower(keyword), lower(r.line)))
    IN  [j \in DOMAIN sel |-> emitted(sel[j])]

\* C7: search_code returns, files in insertion order and lines in order,
\* "<path>: Line <n>: <trimmed line>" for exactly the lines that contain the
\* keyword case-insensitively; nothing when files is empty; and the same
\* result when the letter case of the keyword is changed.
C7_SearchExactCaseInsensitive ==
    answered("search") =>
        LET rd == body.repo_data
            results == response.payload.results
        IN  /\ results = caselessMatches(rd, body.keyword)
            /\ rd.files = <<>> => results = <<>>
            /\ results = search_code(rd, upper(body.keyword))
            /\ results = search_code(rd, lower(body.keyword))

\* what search_code returns in terms of str.lower() alone
SearchLowercaseMatches ==
    answered("search") =>
        response.payload.results = lowercaseMatches(body.repo_data, body.keyword)

\* first position at which sub occurs in s, 0 when it does not
find(sub, s) ==
    IF contains(sub, s)
    THEN 1 + CHOOSE i \in 0..(Len(s) - Len(sub)) :
                /\ SubSeq(s, i + 1, i + Len(sub)) = sub
                /\ \A j \in 0..(i - 1) : SubSeq(s, j + 1, j + Len(sub)) # sub
    ELSE 0

\* the listing block of a formatted document: the text between the header
\* line and the blank line before "File Contents:"
listingBlock(doc) ==
    LET rest == SubSeq(doc, Len(StructureHeader) + 1, Len(doc))
        k == find(<<"\n", "\n">> \o FilesHeader, rest)
    IN  SubSeq(rest, 1, k - 1)

hasNewline(path) == \E k \in DOMAIN path : path[k] = "\n"

\* C8 as stated: for every RepoData, the empty structure included, the
\* listing block of format_for_gemini and the string of /analyze_structure
\* split on newlines give back structure.
C8_ListingRoundTrip ==
    /\ answered("analyze_structure") =>
            splitLines(response.payload.structure) = body.repo_data.structure
    /\ answered("analyze_codebase") =>
            splitLines(listingBlock(sent)) = body.repo_data.structure

\* C8 amended: for every RepoData whose structure is not empty and whose
\* paths hold no newline, the string of /analyze_structure split on
\* newlines gives back structure; so does the listing block of
\* format_for_gemini when, besides, no path is the empty string.
C8_ListingRoundTripAmended ==
    LET structure == body.repo_data.structure IN
    (structure # <<>> /\ \A k \in DOMAIN structure : ~hasNewline(structure[k])) =>
        /\ answered("analyze_structure") =>
                splitLines(response.payload.structure) = structure
        /\ (answered("analyze_codebase") /\ \A k \in DOMAIN structure : structure[k] # <<>>) =>
                splitLines(listingBlock(sent)) = structure

\* /analyze_codebase has formatted a RepoData of several paths, none empty
\* and none with a newline, and of one file at least
C8_Witness ==
    /\ answered("analyze_codebase")
    /\ Len(body.repo_data.structure) >= 2
    /\ \A k \in DOMAIN body.repo_data.structure :
            body.repo_data.structure[k] # <<>> /\ ~hasNewline(body.repo_data.structure[k])
    /\ body.repo_data.files # <<>>

====
